---- MODULE Spec2Model ----
(***************************************************************************)
(* A model of scripts/utilities/validate_structure.py: the class           *)
(* ComprehensiveProjectValidator (its rule set, tree scan, classifier,     *)
(* anti-pattern detector, manifest checker and report) and main().         *)
(*                                                                         *)
(* Paths are strings, relative to the project root, as _normalize_path     *)
(* returns them.  The filesystem is the function fs over the candidate     *)
(* paths of Universe.  Two specifications share the operators below:       *)
(*   Spec     the process main() runs (one validator, one run, exit);      *)
(*   ApiSpec  a caller that invokes the validator's methods in any order.  *)
(***************************************************************************)
EXTENDS Integers, Sequences, FiniteSets, TLC

(***************************************************************************)
(* Strings (Python str): characters are one-character strings.             *)
(***************************************************************************)
Ch(s, i) == SubSeq(s, i, i)

StartsWith(s, pre) == Len(pre) <= Len(s) /\ SubSeq(s, 1, Len(pre)) = pre

EndsWith(s, suf) == Len(suf) <= Len(s) /\ SubSeq(s, Len(s) - Len(suf) + 1, Len(s)) = suf

\* sub in s
Contains(s, sub) == \E i \in 1..(Len(s) - Len(sub) + 1) : SubSeq(s, i, i + Len(sub) - 1) = sub

\* x in list
InList(x, list) == \E i \in 1..Len(list) : list[i] = x

\* s.replace('\\', '/')
RECURSIVE ReplaceBackslash(_)
ReplaceBackslash(s) ==
    IF Len(s) = 0 THEN ""
    ELSE (IF Ch(s, 1) = "\\" THEN "/" ELSE Ch(s, 1)) \o ReplaceBackslash(Tail(s))

\* s.replace('/', '_')
RECURSIVE ReplaceSlashUnderscore(_)
ReplaceSlashUnderscore(s) ==
    IF Len(s) = 0 THEN ""
    ELSE (IF Ch(s, 1) = "/" THEN "_" ELSE Ch(s, 1)) \o ReplaceSlashUnderscore(Tail(s))

\* s.rstrip('/')
RECURSIVE RStripSlash(_)
RStripSlash(s) ==
    IF Len(s) > 0 /\ Ch(s, Len(s)) = "/" THEN RStripSlash(SubSeq(s, 1, Len(s) - 1)) ELSE s

\* s.count('/')
RECURSIVE CountSlash(_)
CountSlash(s) ==
    IF Len(s) = 0 THEN 0
    ELSE (IF Ch(s, 1) = "/" THEN 1 ELSE 0) + CountSlash(Tail(s))

\* the index of the last '/' of s, 0 when there is none
RECURSIVE LastSlash(_)
LastSlash(s) ==
    IF Len(s) = 0 THEN 0
    ELSE IF Ch(s, Len(s)) = "/" THEN Len(s)
    ELSE LastSlash(SubSeq(s, 1, Len(s) - 1))

\* the index of the last '.' of s, 0 when there is none
RECURSIVE LastDot(_)
LastDot(s) ==
    IF Len(s) = 0 THEN 0
    ELSE IF Ch(s, Len(s)) = "." THEN Len(s)
    ELSE LastDot(SubSeq(s, 1, Len(s) - 1))

\* Path.name of a relative path
BaseName(p) == SubSeq(p, LastSlash(p) + 1, Len(p))

\* '/'.join(path.parts[:-1]): '' for an entry of the project root
ParentDir(p) == IF LastSlash(p) = 0 THEN "" ELSE SubSeq(p, 1, LastSlash(p) - 1)

\* Path.parts of a relative path
RECURSIVE Parts(_)
Parts(p) ==
    IF Len(p) = 0 THEN <<>>
    ELSE IF LastSlash(p) = 0 THEN <<p>>
    ELSE Append(Parts(ParentDir(p)), BaseName(p))

\* Path.suffix: the last dot-extension of the name, '' for ".gitignore" or "a."
Suffix(p) ==
    LET name == BaseName(p)
        i == LastDot(name)
    IN  IF 1 < i /\ i < Len(name) THEN SubSeq(name, i, Len(name)) ELSE ""

(***************************************************************************)
(* fnmatch.fnmatch(name, pat) on a POSIX host (no case folding): '*' is    *)
(* any run of characters, '/' included, '?' is any one character, every    *)
(* other character stands for itself.  No pattern of the rule sets below   *)
(* holds a '[' class.                                                      *)
(***************************************************************************)
RECURSIVE FnMatchFrom(_, _, _, _)
FnMatchFrom(s, i, pat, j) ==
    IF j > Len(pat) THEN i > Len(s)
    ELSE IF Ch(pat, j) = "*"
         THEN FnMatchFrom(s, i, pat, j + 1) \/ (i <= Len(s) /\ FnMatchFrom(s, i + 1, pat, j))
         ELSE IF i > Len(s) THEN FALSE
         ELSE IF Ch(pat, j) = "?" THEN FnMatchFrom(s, i + 1, pat, j + 1)
         ELSE Ch(s, i) = Ch(pat, j) /\ FnMatchFrom(s, i + 1, pat, j + 1)

FnMatch(name, pat) == FnMatchFrom(name, 1, pat, 1)

\* any(fnmatch.fnmatch(name, pattern) for pattern in patterns)
FnMatchAny(name, patterns) == \E i \in 1..Len(patterns) : FnMatch(name, patterns[i])

(***************************************************************************)
(* re.match(pattern, name) for the naming rules: every pattern of the      *)
(* rule set is ^[a-z0-9_]+<literal suffix>$, and '$' also matches before   *)
(* one trailing newline.                                                   *)
(***************************************************************************)
LowerWordChars ==
    {"a", "b", "c", "d", "e", "f", "g", "h", "i", "j", "k", "l", "m", "n", "o", "p", "q",
     "r", "s", "t", "u", "v", "w", "x", "y", "z",
     "0", "1", "2", "3", "4", "5", "6", "7", "8", "9", "_"}

IsLowerWord(s) == Len(s) > 0 /\ \A i \in 1..Len(s) : Ch(s, i) \in LowerWordChars

LowerWordWithSuffix(s, sufs) ==
    LET t == IF EndsWith(s, "\n") THEN SubSeq(s, 1, Len(s) - 1) ELSE s
    IN  \E suf \in sufs : EndsWith(t, suf) /\ IsLowerWord(SubSeq(t, 1, Len(t) - Len(suf)))

ScriptsPattern == "^[a-z0-9_]+\\.sh$"
AnsiblePattern == "^[a-z0-9_]+\\.(yml|yaml)$"
RolesPattern == "^[a-z0-9_]+$"
PythonPattern == "^[a-z0-9_]+\\.py$"

ReMatch(pattern, name) ==
    CASE pattern = ScriptsPattern -> LowerWordWithSuffix(name, {".sh"})
      [] pattern = AnsiblePattern -> LowerWordWithSuffix(name, {".yml", ".yaml"})
      [] pattern = RolesPattern -> LowerWordWithSuffix(name, {""})
      [] pattern = PythonPattern -> LowerWordWithSuffix(name, {".py"})
      [] OTHER -> FALSE

(***************************************************************************)
(* The rule set: default_config of _load_config.  A dict whose order the   *)
(* code iterates is a sequence of its items.                               *)
(***************************************************************************)
MinFileSizeBytes == 10
MinDirItems == 1
MinCriticalFileSize == 100

DefaultForbiddenFiles ==
    << "*.tmp", "*.temp", "*~", "*.bak", "*.backup", "*.orig",
       ".DS_Store", "Thumbs.db", "desktop.ini", "Icon\r",
       ".idea/*", "*.swp", "*.swo",
       "*.pyc", "*.pyo", "__pycache__/*", "*.o", "*.so", "*.exe",
       "*.log", "log.txt", "debug.log", "error.log",
       "*.key", "*.pem", "*.p12", "id_rsa", "id_ed25519",
       "*.cert", "*.crt", "password*", "secret*",
       "node_modules/*", "venv/*", ".env", "*.egg",
       "build/*", "dist/*", "*.egg-info/*", "target/*",
       "*.zip", "*.tar.gz", "*.iso", "*.img", "*.deb", "*.rpm" >>

DefaultForbiddenDirectories ==
    << "__pycache__", ".pytest_cache", ".mypy_cache",
       "node_modules", "venv", "env", ".env",
       "build", "dist", ".tox",
       "logs/old", "backup/old" >>

DefaultFileLocationRules ==
    << [key |-> "configs/ansible/", patterns |-> <<"*.yml", "*.yaml", "ansible.cfg">>],
       [key |-> "configs/archinstall/", patterns |-> <<"*.json">>],
       [key |-> "scripts/", patterns |-> <<"*.sh">>],
       [key |-> "templates/", patterns |-> <<"*.j2", "*.jinja2">>],
       [key |-> "docs/", patterns |-> <<"*.md", "*.rst", "*.txt">>],
       [key |-> "tests/", patterns |-> <<"test_*.py", "*_test.py">>],
       [key |-> "root_forbidden", patterns |-> <<"*.sh", "*.py", "*.yml", "*.yaml">>],
       [key |-> "configs_forbidden", patterns |-> <<"*.sh", "*.py">>],
       [key |-> "docs_forbidden", patterns |-> <<"*.sh", "*.py", "*.yml">>] >>

DefaultNamingRules ==
    [ scripts |-> [pattern |-> ScriptsPattern,
                   description |-> "Scripts should be lowercase with underscores, ending in .sh"],
      ansible_files |-> [pattern |-> AnsiblePattern,
                         description |-> "Ansible files should be lowercase with underscores"],
      roles |-> [pattern |-> RolesPattern,
                 description |-> "Role names should be lowercase with underscores"],
      python_files |-> [pattern |-> PythonPattern,
                        description |-> "Python files should be lowercase with underscores"] ]

DefaultExpectedLocations ==
    << [name |-> "ansible.cfg", location |-> "configs/ansible"],
       [name |-> "requirements.txt", location |-> ""],
       [name |-> "Makefile", location |-> ""],
       [name |-> "README.md", location |-> ""],
       [name |-> "LICENSE", location |-> ""],
       [name |-> ".gitignore", location |-> ""] >>

DefaultConfig ==
    [ min_file_size_bytes |-> MinFileSizeBytes,
      min_dir_items |-> MinDirItems,
      min_critical_file_size |-> MinCriticalFileSize,
      ignore_empty_files |-> <<".gitkeep", ".gitignore", "__init__.py", "CHANGELOG.md">>,
      ignore_empty_dirs |-> <<"logs", "backup/configs", "backup/user_data", "backup/logs", ".git">>,
      critical_files |-> <<"README.md", "configs/ansible/ansible.cfg",
                           "scripts/deployment/master_deploy.sh",
                           "configs/archinstall/user_configuration.json">>,
      forbidden_files |-> DefaultForbiddenFiles,
      allowed_ide_files |-> <<".vscode/settings.json", ".vscode/extensions.json",
                              ".vscode/tasks.json", ".vscode/launch.json">>,
      forbidden_directories |-> DefaultForbiddenDirectories,
      allowed_ide_directories |-> <<".vscode">>,
      file_location_rules |-> DefaultFileLocationRules,
      naming_rules |-> DefaultNamingRules,
      expected_locations |-> DefaultExpectedLocations ]

(***************************************************************************)
(* User configuration files (the --config input).  StrictIdeOverlay        *)
(* forbids everything under .vscode, so that the allowed-IDE exceptions    *)
(* decide; WindowsStyleOverlay is the same rule set written with           *)
(* backslashes, trailing slashes and the other spellings of the root.      *)
(***************************************************************************)
StrictIdeOverlay ==
    [ forbidden_files |-> <<"*.tmp", ".vscode/*", "*.key", "secret*", "*.log">>,
      forbidden_directories |-> <<"__pycache__", ".vscode", "logs/old", "backup/old">> ]

WindowsStyleOverlay ==
    [ forbidden_files |-> <<"*.tmp", ".vscode/*", "*.key", "secret*", "*.log">>,
      forbidden_directories |-> <<"__pycache__", ".vscode", "logs\\old", "backup/old/">>,
      allowed_ide_files |-> <<".vscode\\settings.json", ".vscode\\extensions.json",
                              ".vscode\\tasks.json", ".vscode\\launch.json">>,
      allowed_ide_directories |-> <<".vscode/">>,
      critical_files |-> <<"README.md", "configs\\ansible\\ansible.cfg",
                           "scripts\\deployment\\master_deploy.sh",
                           "configs\\archinstall\\user_configuration.json">>,
      ignore_empty_dirs |-> <<"logs/", "backup\\configs", "backup\\user_data", "backup\\logs", ".git">>,
      expected_locations |->
          << [name |-> "ansible.cfg", location |-> "configs\\ansible\\"],
             [name |-> "requirements.txt", location |-> "."],
             [name |-> "Makefile", location |-> "root"],
             [name |-> "README.md", location |-> ""],
             [name |-> "LICENSE", location |-> "."],
             [name |-> ".gitignore", location |-> "root"] >> ]

\* a rule set that expects Deploy.sh under scripts/deployment: at the root the
\* file breaks the expected location and the root restriction at once
ExpectedScriptsOverlay ==
    [ expected_locations |->
          DefaultExpectedLocations \o <<[name |-> "Deploy.sh", location |-> "scripts/deployment"]>> ]

\* default_config.update(user_config): top-level keys are replaced whole
load_config(user_config) == user_config @@ DefaultConfig

Configs ==
    {DefaultConfig, load_config(StrictIdeOverlay), load_config(WindowsStyleOverlay),
     load_config(ExpectedScriptsOverlay)}

(***************************************************************************)
(* ComprehensiveProjectValidator: path normalization and the classifier.   *)
(***************************************************************************)
\* _normalize_path: str(path.relative_to(base_path)).replace('\\', '/')
normalize_path(p) == ReplaceBackslash(p)

\* _normalize_location
normalize_location(location) ==
    IF location \in {".", "", "root"} THEN ""
    ELSE RStripSlash(ReplaceBackslash(location))

\* the first pattern of forbidden_files that matches the name or the path, 0 for none
FirstForbiddenPattern(cfg, p) ==
    LET hits == {i \in 1..Len(cfg.forbidden_files) :
                    \/ FnMatch(BaseName(p), cfg.forbidden_files[i])
                    \/ FnMatch(normalize_path(p), cfg.forbidden_files[i])}
    IN  IF hits = {} THEN 0 ELSE CHOOSE i \in hits : \A j \in hits : i <= j

\* _is_forbidden_file without the allowed-IDE exception
is_forbidden_file_no_exception(cfg, p) ==
    IF FirstForbiddenPattern(cfg, p) # 0
    THEN [flag |-> TRUE,
          reason |-> "Matches forbidden pattern: " \o cfg.forbidden_files[FirstForbiddenPattern(cfg, p)]]
    ELSE [flag |-> FALSE, reason |-> ""]

\* _is_forbidden_file
is_forbidden_file(cfg, p) ==
    IF InList(normalize_path(p), cfg.allowed_ide_files) THEN [flag |-> FALSE, reason |-> ""]
    ELSE IF FirstForbiddenPattern(cfg, p) # 0
    THEN [flag |-> TRUE,
          reason |-> "Matches forbidden pattern: " \o cfg.forbidden_files[FirstForbiddenPattern(cfg, p)]]
    ELSE [flag |-> FALSE, reason |-> ""]

\* the first entry of forbidden_directories equal to the name or the path, 0 for none
FirstForbiddenDirectory(cfg, p) ==
    LET hits == {i \in 1..Len(cfg.forbidden_directories) :
                    \/ BaseName(p) = cfg.forbidden_directories[i]
                    \/ normalize_path(p) = cfg.forbidden_directories[i]}
    IN  IF hits = {} THEN 0 ELSE CHOOSE i \in hits : \A j \in hits : i <= j

\* _is_forbidden_directory without the allowed-IDE exception
is_forbidden_directory_no_exception(cfg, p) ==
    IF FirstForbiddenDirectory(cfg, p) # 0
    THEN [flag |-> TRUE,
          reason |-> "Forbidden directory: " \o cfg.forbidden_directories[FirstForbiddenDirectory(cfg, p)]]
    ELSE [flag |-> FALSE, reason |-> ""]

\* _is_forbidden_directory
is_forbidden_directory(cfg, p) ==
    IF InList(normalize_path(p), cfg.allowed_ide_directories) THEN [flag |-> FALSE, reason |-> ""]
    ELSE IF FirstForbiddenDirectory(cfg, p) # 0
    THEN [flag |-> TRUE,
          reason |-> "Forbidden directory: " \o cfg.forbidden_directories[FirstForbiddenDirectory(cfg, p)]]
    ELSE [flag |-> FALSE, reason |-> ""]

\* dict lookups on expected_locations and file_location_rules
HasKey(items, k) == \E i \in 1..Len(items) : items[i].key = k
PatternsOf(items, k) == items[CHOOSE i \in 1..Len(items) : items[i].key = k].patterns
HasExpectedLocation(cfg, name) == \E i \in 1..Len(cfg.expected_locations) : cfg.expected_locations[i].name = name
ExpectedLocation(cfg, name) ==
    cfg.expected_locations[CHOOSE i \in 1..Len(cfg.expected_locations) :
                               cfg.expected_locations[i].name = name].location

\* the display of a location in a placement reason
LocationDisplay(location) == IF location = "" THEN "root" ELSE location

\* the expected-locations step of _check_file_placement
ExpectedLocationFails(cfg, p) ==
    /\ HasExpectedLocation(cfg, BaseName(p))
    /\ normalize_location(ExpectedLocation(cfg, BaseName(p))) # normalize_location(ParentDir(p))

\* the file-type-rules step of _check_file_placement, for the rule at index i:
\* the file lies under the rule's directory, matches none of its patterns, and
\* matches a pattern of the <directory>_forbidden key, when the rule set has one
LocationRuleFails(cfg, p, i) ==
    LET location == cfg.file_location_rules[i].key
        location_normalized == normalize_location(RStripSlash(location))
        forbidden_key == ReplaceSlashUnderscore(RStripSlash(location)) \o "_forbidden"
    IN  /\ EndsWith(location, "/")
        /\ \/ ParentDir(p) = location_normalized
           \/ StartsWith(ParentDir(p), location_normalized \o "/")
        /\ ~FnMatchAny(BaseName(p), cfg.file_location_rules[i].patterns)
        /\ HasKey(cfg.file_location_rules, forbidden_key)
        /\ FnMatchAny(BaseName(p), PatternsOf(cfg.file_location_rules, forbidden_key))

\* the root-restrictions step of _check_file_placement
RootRestrictionFails(cfg, p) ==
    /\ ParentDir(p) = ""
    /\ HasKey(cfg.file_location_rules, "root_forbidden")
    /\ FnMatchAny(BaseName(p), PatternsOf(cfg.file_location_rules, "root_forbidden"))

\* _check_file_placement without its root-restrictions step
check_file_placement_no_root_step(cfg, p) ==
    LET failing == {i \in 1..Len(cfg.file_location_rules) : LocationRuleFails(cfg, p, i)}
        first == CHOOSE i \in failing : \A j \in failing : i <= j
    IN  IF ExpectedLocationFails(cfg, p)
        THEN [ok |-> FALSE,
              reason |-> "Should be in '"
                         \o LocationDisplay(normalize_location(ExpectedLocation(cfg, BaseName(p))))
                         \o "' but found in '"
                         \o LocationDisplay(normalize_location(ParentDir(p))) \o "'"]
        ELSE IF failing # {}
        THEN [ok |-> FALSE,
              reason |-> "File type '" \o BaseName(p) \o "' not allowed in '"
                         \o normalize_location(RStripSlash(cfg.file_location_rules[first].key)) \o "'"]
        ELSE [ok |-> TRUE, reason |-> ""]

\* _check_file_placement: the first failing step decides
check_file_placement(cfg, p) ==
    LET failing == {i \in 1..Len(cfg.file_location_rules) : LocationRuleFails(cfg, p, i)}
        first == CHOOSE i \in failing : \A j \in failing : i <= j
    IN  IF ExpectedLocationFails(cfg, p)
        THEN [ok |-> FALSE,
              reason |-> "Should be in '"
                         \o LocationDisplay(normalize_location(ExpectedLocation(cfg, BaseName(p))))
                         \o "' but found in '"
                         \o LocationDisplay(normalize_location(ParentDir(p))) \o "'"]
        ELSE IF failing # {}
        THEN [ok |-> FALSE,
              reason |-> "File type '" \o BaseName(p) \o "' not allowed in '"
                         \o normalize_location(RStripSlash(cfg.file_location_rules[first].key)) \o "'"]
        ELSE IF RootRestrictionFails(cfg, p)
        THEN [ok |-> FALSE,
              reason |-> "File type '" \o BaseName(p) \o "' should not be in project root"]
        ELSE [ok |-> TRUE, reason |-> ""]

\* the naming rule _check_naming_convention selects, "" for none; is_dir is the
\* answer of file_path.is_dir()
NamingCategory(p, is_dir) ==
    IF Suffix(p) = ".sh" THEN "scripts"
    ELSE IF Suffix(p) \in {".yml", ".yaml"} /\ Contains(normalize_path(p), "ansible") THEN "ansible_files"
    ELSE IF Suffix(p) = ".py" THEN "python_files"
    ELSE IF Contains(normalize_path(p), "roles") /\ is_dir THEN "roles"
    ELSE ""

\* _check_naming_convention
check_naming_convention(cfg, p, is_dir) ==
    LET cat == NamingCategory(p, is_dir)
    IN  IF cat = "" THEN [ok |-> TRUE, reason |-> ""]
        ELSE IF ~ReMatch(cfg.naming_rules[cat].pattern, BaseName(p))
        THEN [ok |-> FALSE, reason |-> cfg.naming_rules[cat].description]
        ELSE [ok |-> TRUE, reason |-> ""]

\* the role-naming test of the directory loop: a path with two slashes that
\* holds "roles"
IsRoleDirectory(p) == Contains(normalize_path(p), "roles") /\ CountSlash(normalize_path(p)) = 2

\* normalized_path in self.config['critical_files']
IsCritical(cfg, p) == InList(normalize_path(p), cfg.critical_files)

(***************************************************************************)
(* The filesystem under the project root.  Universe lists the candidate    *)
(* entries in the order Path.rglob('*') reports them (the entries of the   *)
(* root, then those of each directory, directories in pre-order); a tree   *)
(* holds some of them.  An entry is a file, a directory or a broken        *)
(* symlink; a directory has a mode: "rwx", "r--" (its names can be listed  *)
(* but nothing below it can be stat'ed: EACCES) or "--x" (it cannot be     *)
(* listed).                                                                *)
(***************************************************************************)
Universe ==
    << [path |-> "README.md", kind |-> "file"],
       [path |-> ".gitignore", kind |-> "file"],
       [path |-> "requirements.txt", kind |-> "file"],
       [path |-> "Makefile", kind |-> "file"],
       [path |-> "secret-x.sh", kind |-> "file"],
       [path |-> "secret.log", kind |-> "file"],
       [path |-> "Deploy.sh", kind |-> "file"],
       [path |-> "setup.cfg", kind |-> "file"],
       [path |-> "dangling", kind |-> "broken"],
       [path |-> ".git", kind |-> "dir"],
       [path |-> ".vscode", kind |-> "dir"],
       [path |-> "docs", kind |-> "dir"],
       [path |-> "configs", kind |-> "dir"],
       [path |-> "scripts", kind |-> "dir"],
       [path |-> "backup", kind |-> "dir"],
       [path |-> "logs", kind |-> "dir"],
       [path |-> "logs_archive", kind |-> "dir"],
       [path |-> ".git/README.md", kind |-> "file"],
       [path |-> ".vscode/settings.json", kind |-> "file"],
       [path |-> "docs/guide.md", kind |-> "file"],
       [path |-> "docs/README.md", kind |-> "file"],
       [path |-> "configs/archinstall", kind |-> "dir"],
       [path |-> "configs/ansible", kind |-> "dir"],
       [path |-> "configs/archinstall/user_configuration.json", kind |-> "file"],
       [path |-> "configs/ansible/ansible.cfg", kind |-> "file"],
       [path |-> "configs/ansible/requirements.yml", kind |-> "file"],
       [path |-> "configs/ansible/run.sh", kind |-> "file"],
       [path |-> "configs/ansible/inventory", kind |-> "dir"],
       [path |-> "configs/ansible/group_vars", kind |-> "dir"],
       [path |-> "configs/ansible/playbooks", kind |-> "dir"],
       [path |-> "configs/ansible/roles", kind |-> "dir"],
       [path |-> "configs/ansible/roles-old", kind |-> "dir"],
       [path |-> "configs/ansible/inventory/hosts.yml", kind |-> "file"],
       [path |-> "configs/ansible/group_vars/all", kind |-> "dir"],
       [path |-> "configs/ansible/group_vars/all/main.yml", kind |-> "file"],
       [path |-> "configs/ansible/group_vars/all/extra", kind |-> "dir"],
       [path |-> "configs/ansible/group_vars/all/extra/vars.yml", kind |-> "file"],
       [path |-> "configs/ansible/playbooks/site.yml", kind |-> "file"],
       [path |-> "configs/ansible/roles/base_system", kind |-> "dir"],
       [path |-> "configs/ansible/roles/Bad-Role", kind |-> "dir"],
       [path |-> "scripts/bootstrap", kind |-> "dir"],
       [path |-> "scripts/deployment", kind |-> "dir"],
       [path |-> "scripts/maintenance", kind |-> "dir"],
       [path |-> "scripts/utilities", kind |-> "dir"],
       [path |-> "scripts/bootstrap/bootstrap.sh", kind |-> "file"],
       [path |-> "scripts/bootstrap/first_boot_setup.sh", kind |-> "file"],
       [path |-> "scripts/deployment/master_deploy.sh", kind |-> "file"],
       [path |-> "scripts/maintenance/health_check.sh", kind |-> "file"],
       [path |-> "scripts/utilities/validate_structure.py", kind |-> "file"],
       [path |-> "backup/configs", kind |-> "dir"],
       [path |-> "logs/old", kind |-> "dir"],
       [path |-> "logs/old/Run-Me.sh", kind |-> "file"] >>

UniversePaths == {Universe[i].path : i \in 1..Len(Universe)}

UniverseSeq == [i \in 1..Len(Universe) |-> Universe[i].path]

Kinds == [p \in UniversePaths |-> Universe[CHOOSE i \in 1..Len(Universe) : Universe[i].path = p].kind]

KindOf(p) == Kinds[p]

NoEntry == [kind |-> "none", size |-> 0, perm |-> "rwx"]

\* The conforming project: every required entry of the manifest of
\* check_structure, each required directory with something in it.
Skeleton ==
    UniversePaths \ {"secret-x.sh", "Deploy.sh", "setup.cfg", "dangling", ".vscode",
                     ".vscode/settings.json", "docs/README.md", "logs/old",
                     "secret.log", ".git", ".git/README.md", "logs_archive", "configs/ansible/run.sh",
                     "configs/ansible/roles-old", "configs/ansible/group_vars/all/extra",
                     "configs/ansible/group_vars/all/extra/vars.yml",
                     "configs/ansible/roles/Bad-Role", "logs/old/Run-Me.sh"}

\* What a tree may hold besides: each a set of entries, their directories included.
Extras ==
    [ secret |-> {"secret-x.sh"},
      deploy |-> {"Deploy.sh"},
      setupcfg |-> {"setup.cfg"},
      vscode |-> {".vscode", ".vscode/settings.json"},
      readme2 |-> {"docs", "docs/README.md"},
      logsold |-> {"logs", "logs/old"},
      rootfiles |-> {"README.md", "Makefile"},
      docs |-> {"docs", "docs/guide.md"},
      dangling |-> {"dangling"},
      secretlog |-> {"secret.log"},
      git |-> {".git", ".git/README.md"},
      logsarchive |-> {"logs_archive"},
      runsh |-> {"configs", "configs/ansible", "configs/ansible/run.sh"},
      rolesold |-> {"configs", "configs/ansible", "configs/ansible/roles-old"},
      badrole |-> {"configs", "configs/ansible", "configs/ansible/roles",
                   "configs/ansible/roles/Bad-Role"},
      nested |-> {"logs", "logs/old", "logs/old/Run-Me.sh"},
      deep |-> {"configs", "configs/ansible", "configs/ansible/group_vars",
                "configs/ansible/group_vars/all", "configs/ansible/group_vars/all/extra",
                "configs/ansible/group_vars/all/extra/vars.yml"} ]

\* README.md (a critical file) and Makefile (not critical) have the size the
\* tree is built with; every other file is large enough to be good.
SizedFiles == {"README.md", "Makefile"}
OtherFileSize == 200

\* The sizes around the two thresholds, min_file_size_bytes and min_critical_file_size.
FileSizes == {0, 1, MinFileSizeBytes - 1, MinFileSizeBytes, MinCriticalFileSize - 1, MinCriticalFileSize}

\* The tree holding the skeleton (or not), the extras named, README.md and Makefile
\* of size `size`, and the directories of `modes` (a function: path -> mode) in that mode.
MkTree(skel, extras, size, modes) ==
    LET present == (IF skel THEN Skeleton ELSE {}) \cup UNION {Extras[e] : e \in extras}
    IN  [p \in UniversePaths |->
            IF p \notin present THEN NoEntry
            ELSE [kind |-> KindOf(p),
                  size |-> IF KindOf(p) # "file" THEN 0
                           ELSE IF p \in SizedFiles THEN size ELSE OtherFileSize,
                  perm |-> IF p \in DOMAIN modes THEN modes[p] ELSE "rwx"]]

AllRwx == [p \in {} |-> "rwx"]

(***************************************************************************)
(* What follows from a path's text and the rule set alone is computed once *)
(* for the paths and the rule sets of the model: PathFacts and Verdicts    *)
(* tabulate the operators above, and the accessors below read the tables.  *)
(***************************************************************************)
ExpectedDirectories ==
    << <<"docs", FALSE>>, <<"configs/archinstall", FALSE>>, <<"configs/ansible/inventory", FALSE>>,
       <<"configs/ansible/group_vars/all", FALSE>>, <<"configs/ansible/host_vars/phoenix", TRUE>>,
       <<"configs/ansible/playbooks", FALSE>>, <<"configs/ansible/roles", FALSE>>,
       <<"configs/profiles/work", TRUE>>, <<"configs/profiles/personal", TRUE>>,
       <<"configs/profiles/development", TRUE>>, <<"scripts/bootstrap", FALSE>>,
       <<"scripts/deployment", FALSE>>, <<"scripts/maintenance", FALSE>>, <<"scripts/security", TRUE>>,
       <<"scripts/utilities", FALSE>>, <<"scripts/testing", TRUE>>,
       <<"templates/systemd/services", TRUE>>, <<"templates/systemd/timers", TRUE>>,
       <<"templates/configs", TRUE>>, <<"files/wallpapers", TRUE>>, <<"files/fonts", TRUE>>,
       <<"files/themes", TRUE>>, <<"tests/unit", TRUE>>, <<"tests/integration", TRUE>>,
       <<"tests/validation", TRUE>>, <<"backup", FALSE>>, <<"logs", FALSE>> >>

ExpectedFiles ==
    << <<"README.md", FALSE>>, <<"LICENSE", TRUE>>, <<".gitignore", FALSE>>,
       <<"requirements.txt", FALSE>>, <<"Makefile", FALSE>>, <<"CHANGELOG.md", TRUE>>,
       <<"configs/ansible/ansible.cfg", FALSE>>, <<"configs/ansible/requirements.yml", FALSE>>,
       <<"configs/archinstall/user_configuration.json", FALSE>>,
       <<"configs/archinstall/user_credentials.json", TRUE>>,
       <<"scripts/deployment/master_deploy.sh", FALSE>>, <<"scripts/bootstrap/bootstrap.sh", FALSE>>,
       <<"scripts/bootstrap/first_boot_setup.sh", FALSE>>,
       <<"scripts/maintenance/health_check.sh", FALSE>>,
       <<"scripts/utilities/validate_structure.sh", TRUE>> >>

ExpectedRoles ==
    << "base_system", "users_security", "hyprland_desktop", "aur_packages", "system_hardening",
       "power_management", "development_tools", "monitoring", "user_environment" >>

RolesRoot == "configs/ansible/roles"

CriticalDirs == <<"configs/ansible/roles", "scripts/bootstrap", "docs">>

ScatteredConfigPatterns == <<"*.yml", "*.yaml", "*.json", "*.cfg", "*.ini">>

\* the patterns detect_common_antipatterns globs for
GlobPatterns == {"README*", "*.sh"} \cup {ScatteredConfigPatterns[i] : i \in 1..Len(ScatteredConfigPatterns)}

KnownPaths ==
    UniversePaths
    \cup {ExpectedDirectories[i][1] : i \in 1..Len(ExpectedDirectories)}
    \cup {ExpectedFiles[i][1] : i \in 1..Len(ExpectedFiles)}
    \cup {RolesRoot \o "/" \o ExpectedRoles[i] : i \in 1..Len(ExpectedRoles)}

\* Path.parents but the root: the directories on the way to p
RECURSIVE Ancestors(_)
Ancestors(p) == IF ParentDir(p) = "" THEN {} ELSE {ParentDir(p)} \cup Ancestors(ParentDir(p))

PathFacts ==
    [p \in KnownPaths |->
        [parent |-> ParentDir(p),
         name |-> BaseName(p),
         suffix |-> Suffix(p),
         normalized |-> normalize_path(p),
         slashes |-> CountSlash(normalize_path(p)),
         in_git |-> InList(".git", Parts(p)),
         ancestors |-> Ancestors(p),
         globs |-> {g \in GlobPatterns : FnMatch(BaseName(p), g)}]]

Parent(p) == PathFacts[p].parent
Name(p) == PathFacts[p].name
Ext(p) == PathFacts[p].suffix
Normalized(p) == PathFacts[p].normalized
Slashes(p) == PathFacts[p].slashes
InGit(p) == PathFacts[p].in_git
Above(p) == PathFacts[p].ancestors
NameMatches(p, g) == g \in PathFacts[p].globs

Verdicts ==
    [c \in Configs |->
        [p \in KnownPaths |->
            [forbidden_file |-> is_forbidden_file(c, p),
             forbidden_directory |-> is_forbidden_directory(c, p),
             placement |-> check_file_placement(c, p),
             naming_of_file |-> check_naming_convention(c, p, FALSE),
             naming_of_directory |-> check_naming_convention(c, p, TRUE),
             role_directory |-> IsRoleDirectory(p),
             critical |-> IsCritical(c, p)]]]

ForbiddenFile(cfg, p) == Verdicts[cfg][p].forbidden_file
ForbiddenDirectory(cfg, p) == Verdicts[cfg][p].forbidden_directory
Placement(cfg, p) == Verdicts[cfg][p].placement
Naming(cfg, p, is_dir) ==
    IF is_dir THEN Verdicts[cfg][p].naming_of_directory ELSE Verdicts[cfg][p].naming_of_file
RoleDirectory(cfg, p) == Verdicts[cfg][p].role_directory
Critical(cfg, p) == Verdicts[cfg][p].critical

(***************************************************************************)
(* pathlib on that filesystem.                                             *)
(***************************************************************************)
Entry(f, p) == IF p \in DOMAIN f THEN f[p] ELSE NoEntry

\* os.stat(p): "ok", "enoent" (nothing there, or a symlink to nothing) or
\* "eacces" (a directory on the way to p cannot be searched)
Stat(f, p) ==
    IF \E a \in Above(p) : Entry(f, a).kind = "dir" /\ Entry(f, a).perm = "r--" THEN "eacces"
    ELSE IF Entry(f, p).kind \in {"none", "broken"} THEN "enoent"
    ELSE "ok"

\* Path.exists(), Path.is_file() and Path.is_dir() raise PermissionError on EACCES:
\* pathlib's _ignore_error covers ENOENT, ENOTDIR, EBADF and ELOOP only.  `strict`
\* is FALSE on an interpreter whose pathlib answers False to every OSError.
StatRaises(f, p, strict) == strict /\ Stat(f, p) = "eacces"

\* their answers when they do not raise
Exists(f, p) == Stat(f, p) = "ok"

IsFile(f, p) == Stat(f, p) = "ok" /\ Entry(f, p).kind = "file"

IsDir(f, p) == Stat(f, p) = "ok" /\ Entry(f, p).kind = "dir"

\* os.scandir(d) succeeds: d is the root, or a directory that can be reached and read
CanList(f, d) ==
    d = "" \/ (Stat(f, d) = "ok" /\ Entry(f, d).kind = "dir" /\ Entry(f, d).perm # "--x")

\* Path.iterdir() of a directory raises when the directory cannot be listed
IterdirRaises(f, d) == ~CanList(f, d)

\* the entries of d, in listing order
Children(f, d) == SelectSeq(UniverseSeq, LAMBDA p : Parent(p) = d /\ Entry(f, p).kind # "none")

\* rglob reports p: every directory above p was listed (rglob skips the
\* directories whose scandir raises PermissionError)
Reported(f, p) ==
    /\ Entry(f, p).kind # "none"
    /\ CanList(f, Parent(p))
    /\ \A a \in Above(p) : Entry(f, a).kind = "dir" /\ CanList(f, Parent(a))

\* list(base_path.rglob('*'))
RGlobAll(f) == SelectSeq(UniverseSeq, LAMBDA p : Reported(f, p))

\* list(base_path.rglob(pattern)) and list(base_path.glob(pattern)), pattern a name
RGlob(f, pattern) == SelectSeq(RGlobAll(f), LAMBDA p : NameMatches(p, pattern))

GlobRoot(f, pattern) == SelectSeq(Children(f, ""), LAMBDA p : NameMatches(p, pattern))

(***************************************************************************)
(* Lists.                                                                  *)
(***************************************************************************)
RECURSIVE Concat(_)
Concat(seqs) == IF seqs = <<>> THEN <<>> ELSE Head(seqs) \o Concat(Tail(seqs))

RECURSIVE SumOf(_)
SumOf(numbers) == IF numbers = <<>> THEN 0 ELSE Head(numbers) + SumOf(Tail(numbers))

\* the index of the first TRUE of a list of booleans, its length + 1 for none
FirstTrue(flags) ==
    LET hits == {i \in 1..Len(flags) : flags[i]}
    IN  IF hits = {} THEN Len(flags) + 1 ELSE CHOOSE i \in hits : \A j \in hits : i <= j

\* str() of a list of strings, as an f-string prints it
RECURSIVE JoinQuoted(_)
JoinQuoted(xs) ==
    IF xs = <<>> THEN ""
    ELSE IF Len(xs) = 1 THEN "'" \o xs[1] \o "'"
    ELSE "'" \o xs[1] \o "', " \o JoinQuoted(Tail(xs))

PyListRepr(xs) == "[" \o JoinQuoted(xs) \o "]"

(***************************************************************************)
(* self.results and self.stats as __init__ leaves them.                    *)
(***************************************************************************)
EmptyResults ==
    [ directories |-> [found |-> <<>>, missing |-> <<>>, empty |-> <<>>, minimal |-> <<>>,
                       forbidden |-> <<>>, misplaced |-> <<>>],
      files |-> [found |-> <<>>, missing |-> <<>>, empty |-> <<>>, minimal |-> <<>>,
                 forbidden |-> <<>>, misplaced |-> <<>>, wrong_extension |-> <<>>,
                 naming_violation |-> <<>>] ]

ZeroStats ==
    [ total_dirs_checked |-> 0, total_files_checked |-> 0, total_size_bytes |-> 0,
      forbidden_items_found |-> 0, misplaced_items_found |-> 0 ]

(***************************************************************************)
(* check_for_forbidden_and_misplaced.                                      *)
(***************************************************************************)
\* _scan_all_files_and_dirs raises: is_file() of a reported entry raises
ScanRaises(f, strict) ==
    \E p \in UniversePaths : Reported(f, p) /\ ~InGit(p) /\ StatRaises(f, p, strict)

\* all_files and all_dirs of _scan_all_files_and_dirs
scan_all_files(f) == SelectSeq(RGlobAll(f), LAMBDA p : ~InGit(p) /\ IsFile(f, p))

scan_all_dirs(f) == SelectSeq(RGlobAll(f), LAMBDA p : ~InGit(p) /\ ~IsFile(f, p) /\ IsDir(f, p))

\* the record of a finding about a file
FileFinding(f, p, reason) ==
    [path |-> Normalized(p), reason |-> reason, size |-> IF Exists(f, p) THEN Entry(f, p).size ELSE 0]

\* a finding in a one-element list when the check failed, the empty list otherwise
FileFindingIf(failed, f, p, reason) == IF failed THEN <<FileFinding(f, p, reason)>> ELSE <<>>

\* the body of the file loop without its `continue`
file_findings_no_continue(f, p, forbidden, placement, naming) ==
    [ forbidden |-> FileFindingIf(forbidden.flag, f, p, forbidden.reason),
      misplaced |-> FileFindingIf(~placement.ok, f, p, placement.reason),
      naming_violation |-> FileFindingIf(~naming.ok, f, p, naming.reason) ]

\* the body of the file loop, given the answers of _is_forbidden_file,
\* _check_file_placement and _check_naming_convention: what one file adds to
\* files.forbidden, files.misplaced and files.naming_violation
file_findings(f, p, forbidden, placement, naming) ==
    IF forbidden.flag
    THEN [ forbidden |-> <<FileFinding(f, p, forbidden.reason)>>,
           misplaced |-> <<>>,
           naming_violation |-> <<>> ]
    ELSE [ forbidden |-> <<>>,
           misplaced |-> FileFindingIf(~placement.ok, f, p, placement.reason),
           naming_violation |-> FileFindingIf(~naming.ok, f, p, naming.reason) ]

classify_file(cfg, f, p) ==
    file_findings(f, p, ForbiddenFile(cfg, p), Placement(cfg, p), Naming(cfg, p, IsDir(f, p)))

\* the record of a finding about a directory; building it lists the directory
DirFinding(f, p, reason) ==
    [path |-> Normalized(p), reason |-> reason,
     item_count |-> IF Exists(f, p) THEN Len(Children(f, p)) ELSE 0]

DirFindingRaises(f, p) == Exists(f, p) /\ IterdirRaises(f, p)

DirFindingIf(failed, f, p, reason) ==
    IF failed /\ ~DirFindingRaises(f, p) THEN <<DirFinding(f, p, reason)>> ELSE <<>>

\* the body of the directory loop, given the answers of _is_forbidden_directory
\* and _check_naming_convention: what one directory adds to
\* directories.forbidden and directories.misplaced, or that it raises
directory_findings(f, p, forbidden, role_directory, naming) ==
    IF forbidden.flag
    THEN [ raised |-> DirFindingRaises(f, p),
           forbidden |-> DirFindingIf(TRUE, f, p, forbidden.reason),
           misplaced |-> <<>> ]
    ELSE IF role_directory /\ ~naming.ok
    THEN [ raised |-> DirFindingRaises(f, p),
           forbidden |-> <<>>,
           misplaced |-> DirFindingIf(TRUE, f, p, naming.reason) ]
    ELSE [ raised |-> FALSE, forbidden |-> <<>>, misplaced |-> <<>> ]

classify_dir(cfg, f, p) ==
    directory_findings(f, p, ForbiddenDirectory(cfg, p), RoleDirectory(cfg, p),
                       Naming(cfg, p, IsDir(f, p)))

\* the loop over the directories stops before the first one that raises
BeforeRaise(outcomes) ==
    SubSeq(outcomes, 1, FirstTrue([i \in 1..Len(outcomes) |-> outcomes[i].raised]) - 1)

NoFindings ==
    [ raised |-> TRUE,
      files |-> [forbidden |-> <<>>, misplaced |-> <<>>, naming_violation |-> <<>>],
      directories |-> [forbidden |-> <<>>, misplaced |-> <<>>] ]

\* the findings of the two loops, from what each file and each directory adds
Findings(of_file, of_dir, dirs_scanned) ==
    [ raised |-> Len(of_dir) < dirs_scanned,
      files |-> [ forbidden |-> Concat([i \in 1..Len(of_file) |-> of_file[i].forbidden]),
                  misplaced |-> Concat([i \in 1..Len(of_file) |-> of_file[i].misplaced]),
                  naming_violation |-> Concat([i \in 1..Len(of_file) |-> of_file[i].naming_violation]) ],
      directories |-> [ forbidden |-> Concat([i \in 1..Len(of_dir) |-> of_dir[i].forbidden]),
                        misplaced |-> Concat([i \in 1..Len(of_dir) |-> of_dir[i].misplaced]) ] ]

ClassifyFiles(cfg, f, all_files) == [i \in 1..Len(all_files) |-> classify_file(cfg, f, all_files[i])]

ClassifyDirs(cfg, f, all_dirs) ==
    BeforeRaise([i \in 1..Len(all_dirs) |-> classify_dir(cfg, f, all_dirs[i])])

\* The findings one call adds, and whether it raises: nothing is added when the
\* scan raises; the file loop runs to its end; the directory loop stops at the
\* first directory whose finding raises.
scan_findings(cfg, f, strict) ==
    IF ScanRaises(f, strict) THEN NoFindings
    ELSE Findings(ClassifyFiles(cfg, f, scan_all_files(f)),
                  ClassifyDirs(cfg, f, scan_all_dirs(f)),
                  Len(scan_all_dirs(f)))

\* self.results and self.stats with the findings of a call added
AddFindings(res, st, found) ==
    [ raised |-> found.raised,
      results |->
          [res EXCEPT !.files.forbidden = @ \o found.files.forbidden,
                      !.files.misplaced = @ \o found.files.misplaced,
                      !.files.naming_violation = @ \o found.files.naming_violation,
                      !.directories.forbidden = @ \o found.directories.forbidden,
                      !.directories.misplaced = @ \o found.directories.misplaced],
      stats |->
          [st EXCEPT !.forbidden_items_found =
                         @ + Len(found.files.forbidden) + Len(found.directories.forbidden),
                     !.misplaced_items_found = @ + Len(found.files.misplaced)] ]

\* check_for_forbidden_and_misplaced on a validator holding res and st
check_for_forbidden_and_misplaced(cfg, f, strict, res, st) ==
    AddFindings(res, st, scan_findings(cfg, f, strict))

(***************************************************************************)
(* The manifest checks: check_file and check_directory.  Each is modelled  *)
(* by its outcome: whether it raises, the list it appends to ("none" when  *)
(* it appends to no list), the record it appends, its return value and     *)
(* what it adds to total_size_bytes.  The call counts in total_*_checked   *)
(* before anything else.                                                   *)
(***************************************************************************)
NoRecord == [path |-> ""]

Raised == [raised |-> TRUE, bucket |-> "none", record |-> NoRecord, ret |-> FALSE, size |-> 0]

Appended(bucket, record, ret, size) ==
    [raised |-> FALSE, bucket |-> bucket, record |-> record, ret |-> ret, size |-> size]

\* info['type'] of _check_file_content
FileType(p) ==
    IF Ext(p) \in {".py", ".sh", ".yml", ".yaml", ".json"} THEN "config/script"
    ELSE IF Ext(p) \in {".md", ".txt", ".rst"} THEN "documentation"
    ELSE IF Ext(p) \in {".j2", ".jinja2"} THEN "template"
    ELSE "other"

\* is_minimal of _check_file_content
IsMinimal(cfg, size, is_critical) ==
    IF size = 0 THEN FALSE
    ELSE IF is_critical /\ size < cfg.min_critical_file_size THEN TRUE
    ELSE size < cfg.min_file_size_bytes

\* info of _check_file_content, for a file that stat() finds
file_content_info(cfg, f, p) ==
    [ size |-> Entry(f, p).size,
      type |-> FileType(p),
      is_critical |-> Critical(cfg, p),
      is_empty |-> Entry(f, p).size = 0,
      is_minimal |-> IsMinimal(cfg, Entry(f, p).size, Critical(cfg, p)) ]

\* _determine_file_status with one status for every minimal file
determine_file_status_conflated(cfg, p, info) ==
    IF info.is_empty
    THEN (IF InList(Name(p), cfg.ignore_empty_files) THEN "empty_allowed" ELSE "empty_problematic")
    ELSE IF info.is_minimal THEN "minimal_normal"
    ELSE "good"

\* _determine_file_status
determine_file_status(cfg, p, info) ==
    IF info.is_empty
    THEN (IF InList(Name(p), cfg.ignore_empty_files) THEN "empty_allowed" ELSE "empty_problematic")
    ELSE IF info.is_minimal
    THEN (IF info.is_critical THEN "minimal_critical" ELSE "minimal_normal")
    ELSE "good"

MissingRecord(path, optional, reason) == [path |-> path, optional |-> optional, reason |-> reason]

\* result of check_file
FileResult(file_path, optional, status, info) ==
    [ path |-> file_path, optional |-> optional, status |-> status,
      size |-> info.size, type |-> info.type, is_critical |-> info.is_critical ]

\* the list check_file appends the result to, and what it returns
FileOutcome(status, result) ==
    IF status \in {"good", "empty_allowed"} THEN Appended("found", result, TRUE, result.size)
    ELSE IF status = "empty_problematic" THEN Appended("empty", result, FALSE, result.size)
    ELSE Appended("minimal", result, status # "minimal_critical", result.size)

FileChecked(cfg, file_path, optional, info) ==
    FileOutcome(determine_file_status(cfg, file_path, info),
                FileResult(file_path, optional, determine_file_status(cfg, file_path, info), info))

\* check_file from _check_file_content on: the path is a file
check_file_content(cfg, f, file_path, optional) ==
    FileChecked(cfg, file_path, optional, file_content_info(cfg, f, file_path))

\* check_file appending nothing for a path that is not a file
check_file_drops_missing(cfg, f, strict, file_path, optional) ==
    IF StatRaises(f, file_path, strict) THEN Raised
    ELSE IF ~Exists(f, file_path) \/ ~IsFile(f, file_path) THEN Appended("none", NoRecord, FALSE, 0)
    ELSE check_file_content(cfg, f, file_path, optional)

\* check_file
check_file(cfg, f, strict, file_path, optional) ==
    IF StatRaises(f, file_path, strict) THEN Raised
    ELSE IF ~Exists(f, file_path)
    THEN Appended("missing", MissingRecord(file_path, optional, "File does not exist"), FALSE, 0)
    ELSE IF ~IsFile(f, file_path)
    THEN Appended("missing", MissingRecord(file_path, optional, "Path exists but is not a file"),
                  FALSE, 0)
    ELSE check_file_content(cfg, f, file_path, optional)

ImportantSuffixes == {".py", ".sh", ".yml", ".yaml", ".json", ".j2"}

\* list(dir_path.iterdir()), empty when the listing raises
Listing(f, p) == IF IterdirRaises(f, p) THEN <<>> ELSE Children(f, p)

\* the items the loop of _check_directory_content reaches: is_file() of an item
\* may raise, which ends the loop
Counted(f, strict, items) ==
    SubSeq(items, 1, FirstTrue([i \in 1..Len(items) |-> StatRaises(f, items[i], strict)]) - 1)

FilesAmong(f, items) == SelectSeq(items, LAMBDA item : IsFile(f, item))

DirectoryInfo(f, item_count, counted, files) ==
    [ item_count |-> item_count,
      file_count |-> Len(files),
      dir_count |-> Len(SelectSeq(counted, LAMBDA item : ~IsFile(f, item) /\ IsDir(f, item))),
      total_size |-> SumOf([i \in 1..Len(files) |-> Entry(f, files[i]).size]),
      has_important_files |-> \E i \in 1..Len(files) : Ext(files[i]) \in ImportantSuffixes ]

\* info of _check_directory_content
directory_content_info(f, strict, p) ==
    DirectoryInfo(f, Len(Listing(f, p)), Counted(f, strict, Listing(f, p)),
                  FilesAmong(f, Counted(f, strict, Listing(f, p))))

\* _determine_directory_status
determine_directory_status(cfg, p, info) ==
    IF info.item_count = 0
    THEN (IF \E i \in 1..Len(cfg.ignore_empty_dirs) : StartsWith(Normalized(p), cfg.ignore_empty_dirs[i])
          THEN "empty_allowed" ELSE "empty_problematic")
    ELSE IF info.item_count < cfg.min_dir_items /\ ~info.has_important_files THEN "minimal"
    ELSE "good"

\* result of check_directory
DirectoryResult(dir_path, optional, status, info) ==
    [ path |-> dir_path, optional |-> optional, status |-> status,
      item_count |-> info.item_count, file_count |-> info.file_count,
      dir_count |-> info.dir_count, total_size |-> info.total_size,
      has_important_files |-> info.has_important_files ]

\* the list check_directory appends the result to, and what it returns
DirectoryOutcome(status, result) ==
    IF status \in {"good", "empty_allowed"} THEN Appended("found", result, TRUE, 0)
    ELSE IF status = "empty_problematic" THEN Appended("empty", result, FALSE, 0)
    ELSE Appended("minimal", result, TRUE, 0)

DirectoryChecked(cfg, dir_path, optional, info) ==
    DirectoryOutcome(determine_directory_status(cfg, dir_path, info),
                     DirectoryResult(dir_path, optional,
                                     determine_directory_status(cfg, dir_path, info), info))

\* check_directory
check_directory(cfg, f, strict, dir_path, optional) ==
    IF StatRaises(f, dir_path, strict) THEN Raised
    ELSE IF ~Exists(f, dir_path)
    THEN Appended("missing", MissingRecord(dir_path, optional, "Directory does not exist"), FALSE, 0)
    ELSE IF ~IsDir(f, dir_path)
    THEN Appended("missing", MissingRecord(dir_path, optional, "Path exists but is not a directory"),
                  FALSE, 0)
    ELSE DirectoryChecked(cfg, dir_path, optional, directory_content_info(f, strict, dir_path))

\* the calls of a loop over the manifest that are made: those up to the first
\* one that raises, that one included
Made(outcomes) ==
    SubSeq(outcomes, 1, FirstTrue([i \in 1..(Len(outcomes) - 1) |-> outcomes[i].raised]))

AnyRaised(outcomes) == \E i \in 1..Len(outcomes) : outcomes[i].raised

\* the records a list of outcomes appends to one list
Records(hits) == [i \in 1..Len(hits) |-> hits[i].record]

RecordsFor(outcomes, bucket) == Records(SelectSeq(outcomes, LAMBDA o : o.bucket = bucket))

\* self.results and self.stats after calls of check_file with these outcomes
after_file_checks(res, st, outcomes) ==
    [ results |-> [res EXCEPT !.files.found = @ \o RecordsFor(outcomes, "found"),
                              !.files.missing = @ \o RecordsFor(outcomes, "missing"),
                              !.files.empty = @ \o RecordsFor(outcomes, "empty"),
                              !.files.minimal = @ \o RecordsFor(outcomes, "minimal")],
      stats |-> [st EXCEPT !.total_files_checked = @ + Len(outcomes),
                           !.total_size_bytes =
                               @ + SumOf([i \in 1..Len(outcomes) |-> outcomes[i].size])] ]

\* self.results and self.stats after calls of check_directory with these outcomes
after_directory_checks(res, st, outcomes) ==
    [ results |-> [res EXCEPT !.directories.found = @ \o RecordsFor(outcomes, "found"),
                              !.directories.missing = @ \o RecordsFor(outcomes, "missing"),
                              !.directories.empty = @ \o RecordsFor(outcomes, "empty"),
                              !.directories.minimal = @ \o RecordsFor(outcomes, "minimal")],
      stats |-> [st EXCEPT !.total_dirs_checked = @ + Len(outcomes)] ]

(***************************************************************************)
(* detect_common_antipatterns.                                             *)
(***************************************************************************)
DeepNestingSlashes == 4
DeepPathsShown == 5

scattered_configs(f) ==
    Concat([i \in 1..Len(ScatteredConfigPatterns) |->
              SelectSeq(GlobRoot(f, ScatteredConfigPatterns[i]),
                        LAMBDA p : /\ Name(p) \notin {"requirements.txt", "Makefile", ".gitignore"}
                                   /\ ~StartsWith(Normalized(p), "configs/"))])

deep_paths(f) == SelectSeq(RGlobAll(f), LAMBDA p : ~InGit(p) /\ Slashes(p) > DeepNestingSlashes)

\* full_path.exists() or full_path.iterdir() raises for a critical directory:
\* the path cannot be stat'ed, is not a directory, or cannot be listed
AntipatternsRaise(f, strict) ==
    \E i \in 1..Len(CriticalDirs) :
        \/ StatRaises(f, CriticalDirs[i], strict)
        \/ Exists(f, CriticalDirs[i]) /\ (~IsDir(f, CriticalDirs[i]) \/ IterdirRaises(f, CriticalDirs[i]))

\* an anti-pattern in a one-element list
Antipattern(type, severity, message) == <<[type |-> type, severity |-> severity, message |-> message]>>

\* the anti-pattern of each kind, in a one-element list, or the empty list
MultipleReadmes(readme_files) ==
    IF Len(readme_files) > 1
    THEN Antipattern("multiple_readmes", "warning",
                     "Multiple README files found: "
                     \o PyListRepr([i \in 1..Len(readme_files) |-> Normalized(readme_files[i])]))
    ELSE <<>>

multiple_readmes(f) == MultipleReadmes(RGlob(f, "README*"))

ScriptsInRoot(root_scripts) ==
    IF root_scripts # <<>>
    THEN Antipattern("scripts_in_root", "error",
                     "Scripts in project root should be in scripts/: "
                     \o PyListRepr([i \in 1..Len(root_scripts) |-> Name(root_scripts[i])]))
    ELSE <<>>

scripts_in_root(f) == ScriptsInRoot(GlobRoot(f, "*.sh"))

ScatteredConfigs(scattered) ==
    IF scattered # <<>>
    THEN Antipattern("scattered_configs", "warning",
                     "Config files outside configs/ directory: " \o PyListRepr(scattered))
    ELSE <<>>

scattered_configs_pattern(f) == ScatteredConfigs(scattered_configs(f))

\* deep_paths[:5]
Shown(deep) == SubSeq(deep, 1, IF Len(deep) > DeepPathsShown THEN DeepPathsShown ELSE Len(deep))

DeepNesting(deep) ==
    IF deep # <<>>
    THEN Antipattern("deep_nesting", "warning",
                     "Very deep directory nesting (>4 levels): " \o PyListRepr(Shown(deep))
                     \o (IF Len(deep) > DeepPathsShown THEN "..." ELSE ""))
    ELSE <<>>

deep_nesting(f) == DeepNesting(deep_paths(f))

EmptyCriticalDirs(hits) ==
    [i \in 1..Len(hits) |->
        [type |-> "empty_critical_dir", severity |-> "error",
         message |-> "Critical directory is empty: " \o hits[i]]]

empty_critical_dirs(f) ==
    EmptyCriticalDirs(SelectSeq(CriticalDirs, LAMBDA d : Exists(f, d) /\ Children(f, d) = <<>>))

\* detect_common_antipatterns: whether it raises, and the list it returns
detect_common_antipatterns(f, strict) ==
    IF AntipatternsRaise(f, strict) THEN [raised |-> TRUE, antipatterns |-> <<>>]
    ELSE [raised |-> FALSE,
          antipatterns |-> multiple_readmes(f) \o scripts_in_root(f) \o scattered_configs_pattern(f)
                           \o deep_nesting(f) \o empty_critical_dirs(f)]

(***************************************************************************)
(* _generate_comprehensive_report: the categories of issues, and the       *)
(* verdict (TRUE: no category).                                            *)
(***************************************************************************)
HasSeverity(patterns, severity) == \E i \in 1..Len(patterns) : patterns[i].severity = severity

critical_issues(res) == SelectSeq(res.files.minimal, LAMBDA r : r.is_critical)

violations(res, patterns) ==
    (IF res.files.forbidden # <<>> \/ res.directories.forbidden # <<>>
     THEN <<"Forbidden files/directories present">> ELSE <<>>)
    \o (IF res.files.misplaced # <<>> \/ res.directories.misplaced # <<>>
        THEN <<"Misplaced files/directories">> ELSE <<>>)
    \o (IF res.files.naming_violation # <<>> THEN <<"Naming convention violations">> ELSE <<>>)
    \o (IF HasSeverity(patterns, "error") THEN <<"Organizational anti-patterns (errors)">> ELSE <<>>)
    \o (IF HasSeverity(patterns, "warning") THEN <<"Organizational anti-patterns (warnings)">> ELSE <<>>)
    \o (IF critical_issues(res) # <<>> THEN <<"Critical files with minimal content">> ELSE <<>>)

generate_comprehensive_report(res, patterns) == violations(res, patterns) = <<>>

\* the sum main computes from the results, and the exit code it gives
total_violations(res) ==
    Len(res.files.forbidden) + Len(res.directories.forbidden) + Len(res.files.misplaced)
    + Len(res.directories.misplaced) + Len(res.files.naming_violation)

exit_code_of(res) == IF total_violations(res) = 0 THEN 0 ELSE 1

(***************************************************************************)
(* check_structure.                                                        *)
(***************************************************************************)
\* the walk over the roles raises: exists() of the roles directory, or of a role
RolesWalkRaises(f, strict) ==
    \/ StatRaises(f, RolesRoot, strict)
    \/ /\ Exists(f, RolesRoot)
       /\ \E i \in 1..Len(ExpectedRoles) : StatRaises(f, RolesRoot \o "/" \o ExpectedRoles[i], strict)

NoVerdict == "none"

Outcome(raised, res, st, patterns, result) ==
    [raised |-> raised, results |-> res, stats |-> st, antipatterns |-> patterns, verdict |-> result]

\* the verdict of the report, as the state holds it
Verdict(res, patterns) == IF generate_comprehensive_report(res, patterns) THEN "pass" ELSE "fail"

\* the end of check_structure: the walk over the roles, and the report
Finished(raised, checked, patterns) ==
    Outcome(raised, checked.results, checked.stats, patterns,
            IF raised THEN NoVerdict ELSE Verdict(checked.results, patterns))

\* check_structure from the manifest on, given what the scan and the detection
\* gave and the outcomes of the calls of check_directory and check_file
StructureChecked(f, strict, scan, detected, of_dirs, of_files) ==
    IF scan.raised \/ detected.raised
    THEN Outcome(TRUE, scan.results, scan.stats, <<>>, NoVerdict)
    ELSE IF AnyRaised(of_dirs)
    THEN Finished(TRUE, after_directory_checks(scan.results, scan.stats, of_dirs),
                   detected.antipatterns)
    ELSE Finished(AnyRaised(of_files) \/ RolesWalkRaises(f, strict),
                   after_file_checks(after_directory_checks(scan.results, scan.stats, of_dirs).results,
                                     after_directory_checks(scan.results, scan.stats, of_dirs).stats,
                                     of_files),
                   detected.antipatterns)

CheckDirectories(cfg, f, strict, directories) ==
    Made([i \in 1..Len(directories) |->
             check_directory(cfg, f, strict, directories[i][1], directories[i][2])])

CheckFiles(cfg, f, strict, files) ==
    Made([i \in 1..Len(files) |-> check_file(cfg, f, strict, files[i][1], files[i][2])])

\* check_structure over a manifest, on a validator holding res and st: whether it
\* raises, self.results and self.stats when it ends, the anti-patterns and the
\* verdict of the report ("none" when it raises before the report)
check_structure_over(cfg, f, strict, res, st, directories, files) ==
    StructureChecked(f, strict,
                     check_for_forbidden_and_misplaced(cfg, f, strict, res, st),
                     detect_common_antipatterns(f, strict),
                     CheckDirectories(cfg, f, strict, directories),
                     CheckFiles(cfg, f, strict, files))

check_structure(cfg, f, strict, res, st) ==
    check_structure_over(cfg, f, strict, res, st, ExpectedDirectories, ExpectedFiles)

\* the --violations-only branch of main running the whole of check_structure
run_violations_only_with_manifest(cfg, f, strict, res, st) == check_structure(cfg, f, strict, res, st)

ViolationsChecked(scan, detected) ==
    Outcome(scan.raised \/ detected.raised, scan.results, scan.stats,
            IF scan.raised THEN <<>> ELSE detected.antipatterns, NoVerdict)

\* the --violations-only branch of main
run_violations_only(cfg, f, strict, res, st) ==
    ViolationsChecked(check_for_forbidden_and_misplaced(cfg, f, strict, res, st),
                      detect_common_antipatterns(f, strict))

(***************************************************************************)
(* State.                                                                  *)
(***************************************************************************)
VARIABLES
    fs,               \* the tree under base_path; nothing modifies it
    config,           \* self.config
    strict,           \* the interpreter's pathlib raises PermissionError on EACCES
    violations_only,  \* args.violations_only
    results,          \* self.results
    stats,            \* self.stats
    antipatterns,     \* the list detect_common_antipatterns returned last
    verdict,          \* what _generate_comprehensive_report returned last: "none" before
    pc,               \* main's position: "start", "ran", "done", "crashed"; "api" for a library user
    exit_code,        \* the process's exit status, -1 while it runs
    history,          \* the methods called so far, in order
    last              \* the last method call and its outcome

vars == <<fs, config, strict, violations_only, results, stats, antipatterns, verdict, pc,
          exit_code, history, last>>

NoCall == [op |-> "none", path |-> "", optional |-> FALSE] @@ Appended("none", NoRecord, FALSE, 0)

Call(op, path, optional, outcome) == [op |-> op, path |-> path, optional |-> optional] @@ outcome

\* a method with no return value
Returned(raised) == [Appended("none", NoRecord, FALSE, 0) EXCEPT !.raised = raised]

NoExit == -1

HasRestrictedDir(f) == \E p \in DOMAIN f : f[p].kind = "dir" /\ f[p].perm # "rwx"

\* the validator after __init__
Constructed ==
    /\ results = EmptyResults
    /\ stats = ZeroStats
    /\ antipatterns = <<>>
    /\ verdict = NoVerdict
    /\ exit_code = NoExit
    /\ history = <<>>
    /\ last = NoCall
    /\ strict \in (IF HasRestrictedDir(fs) THEN BOOLEAN ELSE {TRUE})

\* what a run of the engine leaves in the state
Ran(op, run) ==
    /\ results' = run.results
    /\ stats' = run.stats
    /\ antipatterns' = run.antipatterns
    /\ verdict' = run.verdict
    /\ history' = Append(history, op)
    /\ last' = Call(op, "", FALSE, Returned(run.raised))

(***************************************************************************)
(* main(): one validator, one run, exit.                                   *)
(***************************************************************************)
MainExtras == {"secret", "deploy", "setupcfg", "vscode", "readme2", "logsold"}

\* entries the scan and the detection treat apart: matching two forbidden
\* patterns, under .git, under a forbidden directory, under a rule's
\* directory, around the roles, deeply nested
MoreExtras == {"secretlog", "git", "runsh", "rolesold", "badrole", "nested", "deep"}

MainTrees ==
    {MkTree(TRUE, {}, size, AllRwx) : size \in FileSizes}
    \cup {MkTree(skel, extras, MinCriticalFileSize, AllRwx) : skel \in BOOLEAN, extras \in SUBSET MainExtras}
    \cup {MkTree(TRUE, {e}, MinCriticalFileSize, AllRwx) : e \in MoreExtras}
    \cup {MkTree(skel, MoreExtras \cup extras, MinCriticalFileSize, AllRwx) :
              skel \in BOOLEAN, extras \in {{}, MainExtras}}
    \cup {MkTree(TRUE, {"logsold"}, MinCriticalFileSize, [p \in {"logs/old"} |-> "--x"]),
          MkTree(TRUE, {"dangling"}, MinCriticalFileSize, [p \in {"configs/archinstall"} |-> "r--"])}

Init ==
    /\ fs \in MainTrees
    /\ config \in Configs
    /\ violations_only \in BOOLEAN
    /\ pc = "start"
    /\ Constructed

\* an uncaught exception ends the process with status 1
AfterRun(raised) ==
    /\ pc' = IF raised THEN "crashed" ELSE "ran"
    /\ exit_code' = IF raised THEN 1 ELSE exit_code

\* main, lines 906-908
MainViolationsOnly ==
    /\ pc = "start"
    /\ violations_only
    /\ Ran("violations_only", run_violations_only(config, fs, strict, results, stats))
    /\ AfterRun(last'.raised)
    /\ UNCHANGED <<fs, config, strict, violations_only>>

\* main, line 910
MainCheckStructure ==
    /\ pc = "start"
    /\ ~violations_only
    /\ Ran("check_structure", check_structure(config, fs, strict, results, stats))
    /\ AfterRun(last'.raised)
    /\ UNCHANGED <<fs, config, strict, violations_only>>

\* main, lines 917-925
MainExit ==
    /\ pc = "ran"
    /\ pc' = "done"
    /\ exit_code' = exit_code_of(results)
    /\ UNCHANGED <<fs, config, strict, violations_only, results, stats, antipatterns, verdict,
                   history, last>>

Next == MainViolationsOnly \/ MainCheckStructure \/ MainExit

Spec == Init /\ [][Next]_vars

(***************************************************************************)
(* A library user: one validator, any methods in any order.  An exception  *)
(* a method raises is the caller's to catch; the validator stays as the    *)
(* method left it.                                                         *)
(***************************************************************************)
MaxCalls == 2

ApiTrees ==
    {MkTree(FALSE, {"rootfiles", "docs", "secret", "logsold"}, size, AllRwx) : size \in FileSizes}
    \cup {MkTree(FALSE, {"rootfiles", "docs"}, MinCriticalFileSize, [p \in {"docs"} |-> "r--"]),
          MkTree(FALSE, {"rootfiles", "logsold"}, MinCriticalFileSize, [p \in {"logs/old"} |-> "--x"]),
          MkTree(TRUE, {}, MinCriticalFileSize, AllRwx),
          MkTree(FALSE, {}, MinCriticalFileSize, AllRwx),
          MkTree(FALSE, {"logsold", "logsarchive", "rolesold"}, MinCriticalFileSize, AllRwx)}

ApiFiles == {"README.md", "Makefile", "docs/guide.md", "docs"}

ApiDirectories == {"docs", "logs/old", "logs_archive"}

ApiInit ==
    /\ fs \in ApiTrees
    /\ config = DefaultConfig
    /\ violations_only = FALSE
    /\ pc = "api"
    /\ Constructed

ApiFrame == UNCHANGED <<fs, config, strict, violations_only, pc, exit_code>>

\* what a method that changes self.results and self.stats leaves
Called(op, path, optional, after, outcome) ==
    /\ results' = after.results
    /\ stats' = after.stats
    /\ last' = Call(op, path, optional, outcome)
    /\ history' = Append(history, op)
    /\ UNCHANGED <<antipatterns, verdict>>

ScanCalled(run) == Called("check_for_forbidden_and_misplaced", "", FALSE, run, Returned(run.raised))

ApiScan ==
    /\ Len(history) < MaxCalls
    /\ ScanCalled(check_for_forbidden_and_misplaced(config, fs, strict, results, stats))
    /\ ApiFrame

DetectCalled(run) ==
    /\ antipatterns' = run.antipatterns
    /\ last' = Call("detect_common_antipatterns", "", FALSE, Returned(run.raised))
    /\ history' = Append(history, "detect_common_antipatterns")
    /\ UNCHANGED <<results, stats, verdict>>

ApiDetect ==
    /\ Len(history) < MaxCalls
    /\ DetectCalled(detect_common_antipatterns(fs, strict))
    /\ ApiFrame

ApiCheckStructure ==
    /\ Len(history) < MaxCalls
    /\ Ran("check_structure", check_structure(config, fs, strict, results, stats))
    /\ ApiFrame

FileChecks(file_path, optional, outcome) ==
    Called("check_file", file_path, optional, after_file_checks(results, stats, <<outcome>>), outcome)

ApiCheckFile ==
    /\ Len(history) < MaxCalls
    /\ \E file_path \in ApiFiles, optional \in BOOLEAN :
          FileChecks(file_path, optional, check_file(config, fs, strict, file_path, optional))
    /\ ApiFrame

DirectoryChecks(dir_path, optional, outcome) ==
    Called("check_directory", dir_path, optional,
           after_directory_checks(results, stats, <<outcome>>), outcome)

ApiCheckDirectory ==
    /\ Len(history) < MaxCalls
    /\ \E dir_path \in ApiDirectories, optional \in BOOLEAN :
          DirectoryChecks(dir_path, optional, check_directory(config, fs, strict, dir_path, optional))
    /\ ApiFrame

ApiNext == ApiScan \/ ApiDetect \/ ApiCheckStructure \/ ApiCheckFile \/ ApiCheckDirectory

ApiSpec == ApiInit /\ [][ApiNext]_vars

(***************************************************************************)
(* Properties.                                                             *)
(***************************************************************************)
\* the records of a list that are about path
About(list, path) == {i \in 1..Len(list) : list[i].path = path}

Holds(list, record) == \E i \in 1..Len(list) : list[i] = record

\* the run of main returned without raising
RunReturned == pc \in {"ran", "done"}

FullRunReturned == RunReturned /\ ~violations_only

\* C1: forbidden precedence.  After check_for_forbidden_and_misplaced, every
\* scanned file that _is_forbidden_file classifies forbidden has exactly one
\* finding in files.forbidden and none in files.misplaced or
\* files.naming_violation, whatever placement or naming rule it breaks.
C1_ForbiddenPrecedence ==
    RunReturned =>
        \A i \in 1..Len(scan_all_files(fs)) :
            LET p == scan_all_files(fs)[i]
            IN  ForbiddenFile(config, p).flag =>
                    /\ Cardinality(About(results.files.forbidden, Normalized(p))) = 1
                    /\ About(results.files.misplaced, Normalized(p)) = {}
                    /\ About(results.files.naming_violation, Normalized(p)) = {}

\* a forbidden file that also breaks a placement rule and a naming rule was scanned
C1_Witness ==
    /\ pc = "done"
    /\ \E i \in 1..Len(scan_all_files(fs)) :
          LET p == scan_all_files(fs)[i]
          IN  /\ ForbiddenFile(config, p).flag
              /\ ~Placement(config, p).ok
              /\ ~Naming(config, p, FALSE).ok
              /\ About(results.files.forbidden, Normalized(p)) # {}

\* C2: exception override.  A file whose normalized path is in allowed_ide_files
\* is never in files.forbidden, and a directory whose normalized path is in
\* allowed_ide_directories is never in directories.forbidden, whatever
\* forbidden pattern or forbidden directory name it matches.
C2_ExceptionOverride ==
    \A p \in UniversePaths :
        /\ InList(Normalized(p), config.allowed_ide_files)
               => About(results.files.forbidden, Normalized(p)) = {}
        /\ InList(Normalized(p), config.allowed_ide_directories)
               => About(results.directories.forbidden, Normalized(p)) = {}

\* an allowed IDE file matching a forbidden pattern, in an allowed IDE directory
\* that is a forbidden directory, was scanned
C2_Witness ==
    /\ pc = "done"
    /\ \E i \in 1..Len(scan_all_files(fs)) :
          LET p == scan_all_files(fs)[i]
          IN  /\ InList(Normalized(p), config.allowed_ide_files)
              /\ FirstForbiddenPattern(config, p) # 0
              /\ InList(Parent(p), config.allowed_ide_directories)
              /\ FirstForbiddenDirectory(config, Parent(p)) # 0
              /\ IsDir(fs, Parent(p))

\* the fail condition: a forbidden, misplaced, naming-violation, missing
\* (non-optional), empty-problematic or minimal-critical finding, or an
\* anti-pattern of severity error
FindingsCounted(res) ==
    Len(res.files.forbidden) + Len(res.directories.forbidden)
    + Len(res.files.misplaced) + Len(res.directories.misplaced)
    + Len(res.files.naming_violation)
    + Len(SelectSeq(res.files.missing, LAMBDA r : ~r.optional))
    + Len(SelectSeq(res.directories.missing, LAMBDA r : ~r.optional))
    + Len(res.files.empty) + Len(res.directories.empty)
    + Len(SelectSeq(res.files.minimal, LAMBDA r : r.status = "minimal_critical"))

FailCondition(res, patterns) == FindingsCounted(res) > 0 \/ HasSeverity(patterns, "error")

\* C3: process exit contract.  After a full validation run the exit code is 0
\* iff the fail condition is false, and nonzero otherwise.
C3_ExitContract ==
    (pc = "done" /\ ~violations_only) =>
        (exit_code = 0 <=> ~FailCondition(results, antipatterns))

\* no finding of any list but `found`, and no optional entry among the issues
NoFinding(res) ==
    /\ FindingsCounted(res) = 0
    /\ res.files.minimal = <<>>
    /\ res.directories.minimal = <<>>

\* C4: in the verdict of _generate_comprehensive_report, anti-pattern warnings
\* alone do not cause failure (the verdict is pass when the only issues are
\* anti-patterns of severity warning), and an anti-pattern of severity error
\* makes the verdict fail.
C4_WarningsAloneDoNotFail ==
    FullRunReturned =>
        /\ (NoFinding(results) /\ ~HasSeverity(antipatterns, "error")) => verdict = "pass"
        /\ HasSeverity(antipatterns, "error") => verdict = "fail"

\* the manifest without its optional entries that are not there
Present(manifest) == SelectSeq(manifest, LAMBDA entry : ~(entry[2] /\ ~Exists(fs, entry[1])))

\* the verdict and the exit code are those of this run
SameVerdict(run) == verdict = run.verdict /\ exit_code = exit_code_of(run.results)

\* C5: optional manifest entries.  An optional manifest path that does not
\* exist is appended to the missing list with its optional flag, and the
\* verdict and the exit code of the run equal those of the run over the
\* manifest without these entries.
C5_OptionalMissing ==
    (pc = "done" /\ ~violations_only) =>
        /\ \A i \in 1..Len(ExpectedFiles) :
              (ExpectedFiles[i][2] /\ ~Exists(fs, ExpectedFiles[i][1]))
                  => Holds(results.files.missing,
                           MissingRecord(ExpectedFiles[i][1], TRUE, "File does not exist"))
        /\ \A i \in 1..Len(ExpectedDirectories) :
              (ExpectedDirectories[i][2] /\ ~Exists(fs, ExpectedDirectories[i][1]))
                  => Holds(results.directories.missing,
                           MissingRecord(ExpectedDirectories[i][1], TRUE, "Directory does not exist"))
        /\ SameVerdict(check_structure_over(config, fs, strict, EmptyResults, ZeroStats,
                                             Present(ExpectedDirectories), Present(ExpectedFiles)))

\* a run that passes and exits 0 with optional files and directories missing
C5_Witness ==
    /\ pc = "done"
    /\ ~violations_only
    /\ verdict = "pass"
    /\ exit_code = 0
    /\ \E i \in 1..Len(results.files.missing) : results.files.missing[i].optional
    /\ \E i \in 1..Len(results.directories.missing) : results.directories.missing[i].optional

ManifestLists == {"found", "missing", "empty", "minimal"}

\* C6: manifest return policy.  Every call of check_file or check_directory
\* returns without raising and appends one record to one of the found,
\* missing, empty, minimal lists; so total_files_checked and
\* total_dirs_checked equal the lengths of these lists together.
C6_ManifestReturnPolicy ==
    /\ last.op \in {"check_file", "check_directory"}
           => ~last.raised /\ last.bucket \in ManifestLists
    /\ stats.total_files_checked =
           Len(results.files.found) + Len(results.files.missing)
           + Len(results.files.empty) + Len(results.files.minimal)
    /\ stats.total_dirs_checked =
           Len(results.directories.found) + Len(results.directories.missing)
           + Len(results.directories.empty) + Len(results.directories.minimal)

\* the last call was check_file on a file that is there, not empty and below
\* min_critical_file_size
SmallFileChecked ==
    /\ last.op = "check_file"
    /\ ~last.raised
    /\ IsFile(fs, last.path)
    /\ 0 < Entry(fs, last.path).size
    /\ Entry(fs, last.path).size < config.min_critical_file_size

\* the original statement of C7: below min_critical_file_size a critical file is
\* minimal_critical and a file that is not critical is minimal_normal
C7_AsStated ==
    SmallFileChecked =>
        IF InList(last.path, config.critical_files)
        THEN /\ last.record.status = "minimal_critical"
             /\ ~last.ret
             /\ Holds(critical_issues(results), last.record)
        ELSE /\ last.record.status = "minimal_normal"
             /\ last.ret
             /\ ~Holds(critical_issues(results), last.record)

\* C7 (amended): for every size s with 0 < s < min_critical_file_size, a
\* critical manifest file is minimal_critical (check_file returns False, the
\* file counts as a critical issue); a file that is not critical is
\* minimal_normal when s < min_file_size_bytes and good from
\* min_file_size_bytes on (check_file returns True, no critical issue).
C7_CriticalVersusNormal ==
    SmallFileChecked =>
        IF InList(last.path, config.critical_files)
        THEN /\ last.record.status = "minimal_critical"
             /\ last.bucket = "minimal"
             /\ ~last.ret
             /\ Holds(critical_issues(results), last.record)
        ELSE /\ last.record.status =
                    (IF Entry(fs, last.path).size < config.min_file_size_bytes
                     THEN "minimal_normal" ELSE "good")
             /\ last.bucket = (IF Entry(fs, last.path).size < config.min_file_size_bytes
                               THEN "minimal" ELSE "found")
             /\ last.ret
             /\ ~Holds(critical_issues(results), last.record)

\* a file that is not critical was checked and found good at a size at which a
\* critical file, checked before it, is minimal_critical
C7_Witness ==
    /\ SmallFileChecked
    /\ ~InList(last.path, config.critical_files)
    /\ last.record.status = "good"
    /\ \E i \in 1..Len(results.files.minimal) :
          /\ results.files.minimal[i].status = "minimal_critical"
          /\ results.files.minimal[i].size = last.record.size

\* the rule set with the paths it holds in normalized form
NormalizedList(list) == [i \in 1..Len(list) |-> normalize_location(list[i])]

NormalizeRules(cfg) ==
    [cfg EXCEPT !.expected_locations =
                    [i \in 1..Len(@) |-> [name |-> @[i].name, location |-> normalize_location(@[i].location)]],
                !.allowed_ide_files = NormalizedList(@),
                !.allowed_ide_directories = NormalizedList(@),
                !.forbidden_directories = NormalizedList(@),
                !.critical_files = NormalizedList(@),
                !.ignore_empty_dirs = NormalizedList(@)]

\* what main's run leaves in self.results, from a new validator
RunResults(cfg) ==
    IF violations_only THEN run_violations_only(cfg, fs, strict, EmptyResults, ZeroStats).results
    ELSE check_structure(cfg, fs, strict, EmptyResults, ZeroStats).results

\* C8: normalization invariant.  Every comparison of a scanned path with a path
\* of the rule set is made on normalized forms of both sides: the results of a
\* run are those of the run under the rule set with its paths normalized
\* (forward slashes, no trailing slash, '.', '' and 'root' for the root).
C8_NormalizationInvariant ==
    pc = "done" => results = RunResults(NormalizeRules(config))

\* the engine was run n times in a row, and nothing else, without raising
RanOnly(op) ==
    /\ history # <<>>
    /\ \A i \in 1..Len(history) : history[i] = op
    /\ ~last.raised

\* the results and the statistics are those of this run
SameReport(run) == results = run.results /\ stats = run.stats

\* C9: idempotence.  Running check_structure, or
\* check_for_forbidden_and_misplaced, again on an unmodified tree leaves the
\* results and the statistics of one run: a run does not depend on earlier runs.
C9_Idempotence ==
    /\ RanOnly("check_structure")
           => SameReport(check_structure(config, fs, strict, EmptyResults, ZeroStats))
    /\ RanOnly("check_for_forbidden_and_misplaced")
           => SameReport(check_for_forbidden_and_misplaced(config, fs, strict, EmptyResults, ZeroStats))

\* the forbidden, misplaced and naming_violation findings are those of full
SameFindings(full) ==
    /\ results.files.forbidden = full.files.forbidden
    /\ results.files.misplaced = full.files.misplaced
    /\ results.files.naming_violation = full.files.naming_violation
    /\ results.directories.forbidden = full.directories.forbidden
    /\ results.directories.misplaced = full.directories.misplaced

\* C10: violations-only mode.  After check_for_forbidden_and_misplaced and
\* detect_common_antipatterns the found, missing, empty and minimal lists and
\* total_dirs_checked, total_files_checked and total_size_bytes are as
\* __init__ left them, and the forbidden, misplaced and naming_violation
\* findings are those of the full run on the same tree.
C10_ViolationsOnlySubset ==
    (RunReturned /\ violations_only) =>
        /\ \A list \in ManifestLists :
              results.files[list] = <<>> /\ results.directories[list] = <<>>
        /\ stats.total_dirs_checked = 0
        /\ stats.total_files_checked = 0
        /\ stats.total_size_bytes = 0
        /\ SameFindings(check_structure(config, fs, strict, EmptyResults, ZeroStats).results)

\* a violations-only run with findings of the three kinds, on a tree where the
\* full run fills the manifest lists
C10_Witness ==
    /\ pc = "done"
    /\ violations_only
    /\ results.files.forbidden # <<>>
    /\ results.files.misplaced # <<>>
    /\ results.files.naming_violation # <<>>
    /\ results.directories.forbidden # <<>>
    /\ check_structure(config, fs, strict, EmptyResults, ZeroStats).results.files.found # <<>>

\* a path that is a file in the tree and that rglob reports outside .git
ReportedFile(p) == Reported(fs, p) /\ ~InGit(p) /\ Entry(fs, p).kind = "file"

\* C11: no filesystem access error is fatal.  Whatever stat or listing fails
\* in the tree, the run of main returns, and every file that rglob reports
\* is still classified: one that matches a forbidden pattern has its finding.
C11_NoAccessErrorIsFatal ==
    pc # "start" =>
        /\ pc # "crashed"
        /\ \A p \in UniversePaths :
               ReportedFile(p) /\ ForbiddenFile(config, p).flag
                   => About(results.files.forbidden, Normalized(p)) # {}

\* the tree without the entries that have the segment .git in their path
WithoutIgnored(f) == [p \in DOMAIN f |-> IF InGit(p) THEN NoEntry ELSE f[p]]

\* the findings of the scan name this path
InFindings(res, path) ==
    \/ About(res.files.forbidden, path) # {}
    \/ About(res.files.misplaced, path) # {}
    \/ About(res.files.naming_violation, path) # {}
    \/ About(res.directories.forbidden, path) # {}
    \/ About(res.directories.misplaced, path) # {}

\* C12: ignore segment.  After a run of main that returned, no finding of the
\* scan is about an entry under .git, and the anti-patterns detected are those
\* of the same tree without its entries under .git.
C12_IgnoreSegment ==
    RunReturned =>
        /\ \A p \in UniversePaths : InGit(p) => ~InFindings(results, Normalized(p))
        /\ antipatterns = detect_common_antipatterns(WithoutIgnored(fs), strict).antipatterns

\* C13: root misplacement.  After a run of main that returned, no scanned file
\* has more than one finding in files.misplaced, however many placement rules
\* it breaks, and a file that is not forbidden, lies at the root and matches a
\* root_forbidden pattern has exactly one.
C13_OneMisplacedFinding ==
    RunReturned =>
        \A i \in 1..Len(scan_all_files(fs)) :
            LET p == scan_all_files(fs)[i]
            IN  /\ Cardinality(About(results.files.misplaced, Normalized(p))) <= 1
                /\ ~ForbiddenFile(config, p).flag /\ RootRestrictionFails(config, p)
                       => Cardinality(About(results.files.misplaced, Normalized(p))) = 1

\* a file at the root that breaks its expected location and the root
\* restriction at once was scanned, and has its one finding
C13_Witness ==
    /\ pc = "done"
    /\ \E i \in 1..Len(scan_all_files(fs)) :
          LET p == scan_all_files(fs)[i]
          IN  /\ ~ForbiddenFile(config, p).flag
              /\ ExpectedLocationFails(config, p)
              /\ RootRestrictionFails(config, p)
              /\ Cardinality(About(results.files.misplaced, Normalized(p))) = 1

\* the last call was check_directory on a directory that is there and has no item
EmptyDirectoryChecked ==
    /\ last.op = "check_directory"
    /\ ~last.raised
    /\ last.bucket \in {"found", "empty", "minimal"}
    /\ last.record.item_count = 0

\* path is a directory of ignore_empty_dirs, or lies under one
UnderIgnoredDirectory(cfg, path) ==
    \E i \in 1..Len(cfg.ignore_empty_dirs) :
        \/ path = cfg.ignore_empty_dirs[i]
        \/ StartsWith(path, cfg.ignore_empty_dirs[i] \o "/")

\* C14: allowed empty directories.  check_directory on an existing directory
\* with no item records it in directories.found with status empty_allowed
\* when its normalized path is a directory of ignore_empty_dirs or lies under
\* one, and in directories.empty with status empty_problematic otherwise.
C14_AllowedEmptyDirectories ==
    EmptyDirectoryChecked =>
        IF UnderIgnoredDirectory(config, Normalized(last.path))
        THEN last.record.status = "empty_allowed" /\ last.bucket = "found"
        ELSE last.record.status = "empty_problematic" /\ last.bucket = "empty"

\* for each rule set and path, the patterns of forbidden_files that match the
\* name or the normalized path, and the entries of forbidden_directories equal
\* to one of the two
Matching ==
    [c \in Configs |->
        [p \in KnownPaths |->
            [patterns |-> {i \in 1..Len(c.forbidden_files) :
                              \/ FnMatch(BaseName(p), c.forbidden_files[i])
                              \/ FnMatch(normalize_path(p), c.forbidden_files[i])},
             directories |-> {i \in 1..Len(c.forbidden_directories) :
                                 c.forbidden_directories[i] \in {BaseName(p), normalize_path(p)}}]]]

MatchingPatterns(cfg, p) == Matching[cfg][p].patterns

MatchingDirectories(cfg, p) == Matching[cfg][p].directories

\* the reason of every record of list about path names the first pattern of
\* patterns among those of matching, after prefix
NamesFirst(list, path, prefix, patterns, matching) ==
    \A r \in About(list, path) :
        \E k \in matching :
            /\ \A j \in matching : k <= j
            /\ list[r].reason = prefix \o patterns[k]

\* a scanned file, and a scanned directory, is reported forbidden exactly when
\* it is no allowed exception and a pattern matches, and the reason names the
\* first pattern that does
ForbiddenFileDecision(cfg, res, p) ==
    /\ About(res.files.forbidden, Normalized(p)) # {}
           <=> /\ ~InList(Normalized(p), cfg.allowed_ide_files)
               /\ MatchingPatterns(cfg, p) # {}
    /\ NamesFirst(res.files.forbidden, Normalized(p), "Matches forbidden pattern: ",
                  cfg.forbidden_files, MatchingPatterns(cfg, p))

ForbiddenDirectoryDecision(cfg, res, p) ==
    /\ About(res.directories.forbidden, Normalized(p)) # {}
           <=> /\ ~InList(Normalized(p), cfg.allowed_ide_directories)
               /\ MatchingDirectories(cfg, p) # {}
    /\ NamesFirst(res.directories.forbidden, Normalized(p), "Forbidden directory: ",
                  cfg.forbidden_directories, MatchingDirectories(cfg, p))

\* C15: forbidden decision.  After a run of main that returned, a scanned
\* file is in files.forbidden iff its normalized path is not in
\* allowed_ide_files and some forbidden_files glob matches its basename or its
\* normalized path, and the reason names the first such glob in list order;
\* a scanned directory is in directories.forbidden iff its normalized path is
\* not in allowed_ide_directories and its basename or normalized path equals
\* an entry of forbidden_directories.
C15_ForbiddenDecision ==
    RunReturned =>
        /\ \A i \in 1..Len(scan_all_files(fs)) :
               ForbiddenFileDecision(config, results, scan_all_files(fs)[i])
        /\ \A i \in 1..Len(scan_all_dirs(fs)) :
               ForbiddenDirectoryDecision(config, results, scan_all_dirs(fs)[i])

\* a run reported a forbidden file that two patterns match, a forbidden
\* directory, and left alone a directory that is an allowed exception
C15_Witness ==
    /\ pc = "done"
    /\ \E i \in 1..Len(scan_all_files(fs)) :
          /\ Cardinality(MatchingPatterns(config, scan_all_files(fs)[i])) > 1
          /\ About(results.files.forbidden, Normalized(scan_all_files(fs)[i])) # {}
    /\ results.directories.forbidden # <<>>
    /\ \E i \in 1..Len(scan_all_dirs(fs)) :
          /\ MatchingDirectories(config, scan_all_dirs(fs)[i]) # {}
          /\ InList(Normalized(scan_all_dirs(fs)[i]), config.allowed_ide_directories)

\* the directory rules of file_location_rules that p lies under: their indices
RulesAbove(cfg, p) ==
    {i \in 1..Len(cfg.file_location_rules) :
        /\ EndsWith(cfg.file_location_rules[i].key, "/")
        /\ \/ Parent(p) = RStripSlash(cfg.file_location_rules[i].key)
           \/ StartsWith(Parent(p), cfg.file_location_rules[i].key)}

\* the patterns that forbid a file under the directory of a rule: those of
\* the _forbidden key named after the first segment of the directory
\* (configs_forbidden for configs/ansible/, docs_forbidden for docs/)
ForbiddenUnder(cfg, location) ==
    LET top == IF CountSlash(RStripSlash(location)) = 0 THEN RStripSlash(location)
               ELSE Parts(RStripSlash(location))[1]
    IN  IF HasKey(cfg.file_location_rules, top \o "_forbidden")
        THEN PatternsOf(cfg.file_location_rules, top \o "_forbidden")
        ELSE <<>>

\* C16: location rules.  After a run of main that returned, every scanned
\* file that is not forbidden, lies in or under the directory of a location
\* rule, matches none of the rule's patterns and matches a pattern forbidden
\* for that location (docs_forbidden under docs/, configs_forbidden under
\* configs/ansible/ and configs/archinstall/) has a finding in files.misplaced.
C16_LocationRules ==
    RunReturned =>
        \A n \in 1..Len(scan_all_files(fs)) :
            \A i \in RulesAbove(config, scan_all_files(fs)[n]) :
                /\ ~ForbiddenFile(config, scan_all_files(fs)[n]).flag
                /\ ~FnMatchAny(Name(scan_all_files(fs)[n]), config.file_location_rules[i].patterns)
                /\ FnMatchAny(Name(scan_all_files(fs)[n]),
                              ForbiddenUnder(config, config.file_location_rules[i].key))
                => About(results.files.misplaced, Normalized(scan_all_files(fs)[n])) # {}

\* a directory directly under the roles root: configs/ansible/roles/<name>
UnderRolesRoot(p) == Parent(p) = RolesRoot

\* C17: role directory naming.  After a run of main that returned, every
\* scanned directory directly under configs/ansible/roles that is not
\* forbidden has a finding carrying the description of the roles rule when
\* its basename fails the roles pattern, and has none when it satisfies it.
C17_RoleDirectoryNaming ==
    RunReturned =>
        \A n \in 1..Len(scan_all_dirs(fs)) :
            UnderRolesRoot(scan_all_dirs(fs)[n]) /\ ~ForbiddenDirectory(config, scan_all_dirs(fs)[n]).flag
                => IF ReMatch(config.naming_rules.roles.pattern, Name(scan_all_dirs(fs)[n]))
                   THEN About(results.directories.misplaced, Normalized(scan_all_dirs(fs)[n])) = {}
                   ELSE \E r \in About(results.directories.misplaced, Normalized(scan_all_dirs(fs)[n])) :
                            results.directories.misplaced[r].reason = config.naming_rules.roles.description

\* p lies inside a directory that the scan reported as forbidden
InsideForbidden(res, p) ==
    \E a \in Above(p) : About(res.directories.forbidden, Normalized(a)) # {}

\* C18: forbidden directories are not descended into.  After a run of main
\* that returned, an entry inside a directory reported as forbidden has no
\* finding in files.misplaced, files.naming_violation or
\* directories.misplaced, and has a forbidden finding only if a forbidden
\* pattern or forbidden directory name matches the entry itself.
C18_ForbiddenNotDescended ==
    RunReturned =>
        \A p \in UniversePaths :
            Reported(fs, p) /\ InsideForbidden(results, p) =>
                /\ About(results.files.misplaced, Normalized(p)) = {}
                /\ About(results.files.naming_violation, Normalized(p)) = {}
                /\ About(results.directories.misplaced, Normalized(p)) = {}
                /\ About(results.files.forbidden, Normalized(p)) # {}
                       => MatchingPatterns(config, p) # {}
                /\ About(results.directories.forbidden, Normalized(p)) # {}
                       => MatchingDirectories(config, p) # {}

\* the entries outside .git whose normalized path has more than 4 segments
\* (a path with n slashes has n + 1 segments), in the order rglob reports them
DeepEntries(f) ==
    SelectSeq(RGlobAll(f), LAMBDA p : ~InGit(p) /\ Slashes(p) + 1 > DeepNestingSlashes)

OfType(patterns, type) == SelectSeq(patterns, LAMBDA a : a.type = type)

\* the deep_nesting warning for these offenders: the first 5, then an
\* ellipsis when there are more
DeepNestingMessage(offenders) ==
    "Very deep directory nesting (>4 levels): "
    \o PyListRepr(SubSeq(offenders, 1, IF Len(offenders) > DeepPathsShown
                                       THEN DeepPathsShown ELSE Len(offenders)))
    \o (IF Len(offenders) > DeepPathsShown THEN "..." ELSE "")

\* C19: deep-nesting anti-pattern.  After a run of main that returned, the
\* anti-patterns hold exactly one deep_nesting warning when some entry
\* outside .git has a normalized path of more than 4 segments, and none
\* otherwise; the warning lists the first 5 such entries, followed by an
\* ellipsis iff there are more than 5.
C19_DeepNesting ==
    RunReturned =>
        IF DeepEntries(fs) = <<>>
        THEN OfType(antipatterns, "deep_nesting") = <<>>
        ELSE /\ Len(OfType(antipatterns, "deep_nesting")) = 1
             /\ OfType(antipatterns, "deep_nesting")[1].severity = "warning"
             /\ OfType(antipatterns, "deep_nesting")[1].message = DeepNestingMessage(DeepEntries(fs))

\* C20: statistics agree with findings.  After any sequence of calls on one
\* validator, forbidden_items_found is the number of records in
\* files.forbidden and directories.forbidden, and misplaced_items_found the
\* number of records in files.misplaced and directories.misplaced.
C20_StatisticsAgree ==
    /\ stats.forbidden_items_found
           = Len(results.files.forbidden) + Len(results.directories.forbidden)
    /\ stats.misplaced_items_found
           = Len(results.files.misplaced) + Len(results.directories.misplaced)

====
